---- MODULE Spec2Model ----
(***************************************************************************)
(* State-machine model of mcp_common.websocket: the server session loop    *)
(* (server.py), the client with its request correlator and reconnect       *)
(* supervisor (client.py), and the envelope constructors (protocol.py).    *)
(* Every `await` of the source is a scheduling point: a coroutine is a     *)
(* record with a program counter and runs one segment between two awaits   *)
(* per step.                                                               *)
(***************************************************************************)
EXTENDS Integers, Sequences, FiniteSets, TLC

\* ------------------------------------------------------------------ bounds
MaxConns == 2        \* transport connections the server's handler is run for
MaxMsgs == 2         \* inbound frames one server connection delivers in its loop
MaxBroadcasts == 1   \* broadcast_to_room calls the application makes

None == "None"
Rooms == {"a", "b"}
ConnIds == 1 .. MaxConns

\* ------------------------------------------------------------ protocol.py
\* Python values that reach a WebSocketMessage field, tagged with their type.
PyNone == [ty |-> "none", v |-> "None"]
PyInt(n) == [ty |-> "int", v |-> n]
PyStr(s) == [ty |-> "str", v |-> s]
PyDict(d) == [ty |-> "dict", v |-> d]

ValidationError == [type |-> "ValidationError"]

\* WebSocketMessage(...): pydantic validates the field types on construction;
\* data: Dict[str, Any], error_message: Optional[str].
WebSocketMessage(type, event, data, correlation_id, error_code, error_message, room) ==
    IF data.ty = "dict" /\ error_message.ty \in {"str", "none"}
    THEN [type |-> type, event |-> event, data |-> data.v,
          correlation_id |-> correlation_id, error_code |-> error_code,
          error_message |-> error_message.v, room |-> room]
    ELSE ValidationError

\* create_response(request, data, error=None)
create_response(request, data, error) ==
    WebSocketMessage(IF error = PyNone THEN "response" ELSE "error",
                     request.event, data, request.correlation_id, None, error, None)

\* create_error(error_code, error_message, correlation_id=None)
create_error(error_code, error_message, correlation_id) ==
    WebSocketMessage("error", None, PyDict("empty"), correlation_id,
                     error_code, PyStr(error_message), None)

\* create_event(event, data, room=None)
create_event(event, data, room) ==
    WebSocketMessage("event", event, data, None, None, PyNone, room)

\* Frames a peer can put on the wire towards the server. "garbage" is a frame
\* WebSocketProtocol.decode raises on; the others decode to the record itself.
AuthRequest(tok, cid) ==
    [type |-> "request", event |-> "auth", data |-> tok,
     correlation_id |-> cid, error_code |-> None]
OtherRequest(cid) ==
    [type |-> "request", event |-> "get_session", data |-> "empty",
     correlation_id |-> cid, error_code |-> None]
SubscribeFrame(r) ==
    [type |-> "subscribe", event |-> None, data |-> r,
     correlation_id |-> None, error_code |-> None]
Garbage == [type |-> "garbage"]
NoFrame == [type |-> "none"]
Tokens == {"good", "bad"}
FirstFrames ==
    {Garbage, OtherRequest("k1")} \cup {AuthRequest(t, "k1") : t \in Tokens}
LoopFrames == {Garbage, OtherRequest("k1")} \cup {SubscribeFrame(r) : r \in Rooms}

\* ---------------------------------------------------------------- auth.py
\* authenticate_connection(token) with no required permissions: the payload
\* of a token that verifies, None otherwise.
authenticate_connection(token) ==
    IF token = "good" THEN "user1" ELSE None

VARIABLES
    \* --- server (WebSocketServer)
    max_connections,    \* self.max_connections
    require_auth,       \* self.require_auth
    authenticator,      \* TRUE iff self.authenticator is not None
    is_running,         \* self.is_running
    connections,        \* keys of self.connections
    connection_rooms,   \* self.connection_rooms: room_id -> set of connection ids
    room_connections,   \* self.room_connections: connection_id -> room_id
    hpc,                \* position of each connection's handler coroutine
    wsOpen,             \* whether the peer side of each transport is still open
    wsUser,             \* websocket.user of each transport, None when unset
    closeCode,          \* code the server closed each transport with, 0 if none
    sent,               \* envelopes the server sent on each transport
    firstFrame,         \* first frame received in the auth handshake, NoFrame if none
    nmsg,               \* frames each connection has delivered in its loop
    bc                  \* the application's broadcast_to_room call in progress

srvVars == <<max_connections, require_auth, authenticator, is_running,
             connections, connection_rooms, room_connections, hpc, wsOpen,
             wsUser, closeCode, sent, firstFrame, nmsg, bc>>

VARIABLES
    \* --- client (WebSocketClient)
    cfg,                \* reconnect, token, max_retries, initial_delay, max_delay
    netLimit,           \* transports the network grants in a run
    websocket,          \* self.websocket: a transport id, 0 for None
    is_connected,       \* self.is_connected
    is_authenticated,   \* self.is_authenticated
    rooms,              \* self.rooms
    receive_task,       \* self.receive_task: a receive task id, 0 for None
    reconnect_task,     \* self.reconnect_task: a supervisor id, 0 for None
    recv,               \* the _receive_loop tasks
    sup,                \* the _reconnect_loop tasks
    tr,                 \* state of each transport websockets.connect returned
    subs,               \* rooms a subscribe was sent for, per open transport
    connectCall,        \* the caller's connect() in progress
    discCall,           \* the caller's disconnect() in progress
    nConnect,           \* connect() calls made
    pending_requests,   \* keys of self.pending_requests
    reqs,               \* the caller's send_request() calls
    \* --- history
    dcDone,             \* disconnect() has returned and connect() was not called since
    attempts,           \* reconnect attempts begun since the last unexpected
                        \* disconnect, successful reconnect or connect() call
    roomsAtDrop,        \* self.rooms at the last unexpected disconnect
    callerActed         \* the caller called the client since the client was
                        \* last left alone in reconnection by a disconnect

VARIABLES
    \* --- authenticator (WebSocketAuthenticator) and the clock it reads
    clock,              \* the time datetime.now(UTC) returns, in ticks
    token_expiry,       \* self.token_expiry, in seconds
    jwt_version,        \* the PyJWT release installed: before 2.6.0, or 2.6.0 and later
    issued,             \* the token create_token returned, with the time of the call
    checked             \* the last verify_token / authenticate_connection call

authVars == <<clock, token_expiry, jwt_version, issued, checked>>

VARIABLES
    \* --- codec (WebSocketProtocol.encode / decode)
    message,            \* the WebSocketMessage handed to encode, if any
    wire,               \* the JSON text to decode, if any
    decoded             \* what decode returned for it, if called

codecVars == <<message, wire, decoded>>

\* What no step of the server or of the client changes.
envVars == <<cfg, netLimit, authVars, codecVars>>
connVars == <<websocket, is_connected, is_authenticated>>
taskVars == <<receive_task, reconnect_task, recv, sup>>
netVars == <<tr, subs>>
callVars == <<connectCall, discCall, nConnect>>
reqVars == <<pending_requests, reqs>>
histVars == <<dcDone, attempts, roomsAtDrop, callerActed>>
cliVars == <<envVars, rooms, connVars, taskVars, netVars, callVars, reqVars, histVars>>

vars == <<srvVars, cliVars>>

\* ------------------------------------------------------ server.py: rooms
\* join_room(room_id, connection_id) on the two maps
join_room(cr, rc, room_id, c) ==
    LET cr1 == IF room_id \in DOMAIN cr THEN cr
               ELSE [r \in DOMAIN cr \cup {room_id} |->
                        IF r = room_id THEN {} ELSE cr[r]]
    IN <<[cr1 EXCEPT ![room_id] = @ \cup {c}],
         [k \in DOMAIN rc \cup {c} |-> IF k = c THEN room_id ELSE rc[k]]>>

\* leave_room(room_id, connection_id)
leave_room(cr, rc, room_id, c) ==
    <<IF room_id \in DOMAIN cr THEN [cr EXCEPT ![room_id] = @ \ {c}] ELSE cr,
      IF c \in DOMAIN rc /\ rc[c] = room_id
      THEN [k \in DOMAIN rc \ {c} |-> rc[k]] ELSE rc>>

\* leave_all_rooms(connection_id)
leave_all_rooms(cr, rc, c) ==
    IF c \in DOMAIN rc THEN leave_room(cr, rc, rc[c], c) ELSE <<cr, rc>>

\* What an application callback (on_connect, on_message, on_disconnect) does
\* with the server's public room API, and whether it raises.
AppCalls ==
    {[op |-> "none", room |-> None]}
    \cup {[op |-> o, room |-> r] : o \in {"join", "leave"}, r \in Rooms}
    \cup {[op |-> "leave_all", room |-> None]}

\* on_disconnect is handed a connection that is going away: it cleans up.
DisconnectCalls == {call \in AppCalls : call.op # "join"}

AppEffect(call, c) ==
    CASE call.op = "join" -> join_room(connection_rooms, room_connections, call.room, c)
      [] call.op = "leave" -> leave_room(connection_rooms, room_connections, call.room, c)
      [] call.op = "leave_all" -> leave_all_rooms(connection_rooms, room_connections, c)
      [] OTHER -> <<connection_rooms, room_connections>>

\* broadcast_to_room before it is called. members and registered are the
\* room's member set and self.connections when the call was made, todo the
\* members the for loop has not visited yet, cur the connection whose send is
\* awaited (0: none), att the sends attempted with their outcome, skipped the
\* members passed over at their turn, n the calls made.
IdleBroadcast ==
    [pc |-> "idle", room |-> None, members |-> {}, registered |-> {},
     todo |-> {}, cur |-> 0, att |-> <<>>, skipped |-> {}, n |-> 0]

\* --------------------------------------------- server.py: start().handler
InitServer ==
    /\ max_connections \in {1, 2}
    /\ require_auth \in BOOLEAN
    /\ authenticator \in BOOLEAN
    /\ is_running = TRUE
    /\ connections = {}
    /\ connection_rooms = <<>>
    /\ room_connections = <<>>
    /\ hpc = [c \in ConnIds |-> "idle"]
    /\ wsOpen = [c \in ConnIds |-> TRUE]
    /\ wsUser = [c \in ConnIds |-> None]
    /\ closeCode = [c \in ConnIds |-> 0]
    /\ sent = [c \in ConnIds |-> <<>>]
    /\ firstFrame = [c \in ConnIds |-> NoFrame]
    /\ nmsg = [c \in ConnIds |-> 0]
    /\ bc = IdleBroadcast

\* authenticate_websocket(token)
authenticate_websocket(token) ==
    IF ~authenticator THEN None ELSE authenticate_connection(token)

\* Whether the handler runs the auth handshake (server.py line 280).
AuthHandshakeRuns == require_auth /\ authenticator

\* The capacity check at the head of the handler (line 273).
AtCapacity == Cardinality(connections) >= max_connections

\* handler, lines 272-280: capacity check, then either the handshake's recv
\* or the on_connect callback is awaited.
Accept(c) ==
    /\ hpc[c] = "idle"
    /\ IF AtCapacity
       THEN /\ hpc' = [hpc EXCEPT ![c] = "closed"]
            /\ closeCode' = [closeCode EXCEPT ![c] = 1013]
       ELSE /\ hpc' = [hpc EXCEPT ![c] = IF AuthHandshakeRuns THEN "auth" ELSE "on_connect"]
            /\ UNCHANGED closeCode
    /\ UNCHANGED <<cliVars, bc, max_connections, require_auth, authenticator, is_running,
                   connections, connection_rooms, room_connections, wsOpen,
                   wsUser, sent, firstFrame, nmsg>>

\* The outcome of lines 284-328 for a first frame f: the envelopes sent, the
\* close code (0: not closed) and websocket.user.
AuthOutcome(f) ==
    IF f = Garbage
    THEN [out |-> <<>>, code |-> 1011, user |-> None]        \* decode raises
    ELSE IF f.type = "request" /\ f.event = "auth"
    THEN LET user == authenticate_websocket(f.data) IN
         IF user = None
         THEN [out |-> <<create_error("AUTH_FAILED", "Invalid or expired token",
                                      f.correlation_id)>>,
               code |-> 1008, user |-> None]
         ELSE LET response == create_response(f, PyInt(200),
                                              PyDict("authenticated"))
              IN IF response = ValidationError
                 THEN [out |-> <<>>, code |-> 1011, user |-> user]
                 ELSE [out |-> <<response>>, code |-> 0, user |-> user]
    ELSE [out |-> <<create_error("AUTH_REQUIRED", "Authentication required", None)>>,
          code |-> 1008, user |-> None]

\* handler, lines 283-328: the first frame arrives and is handled.
AuthRecv(c, f) ==
    /\ hpc[c] = "auth"
    /\ wsOpen[c]
    /\ LET o == AuthOutcome(f) IN
       /\ sent' = [sent EXCEPT ![c] = @ \o o.out]
       /\ wsUser' = [wsUser EXCEPT ![c] = o.user]
       /\ closeCode' = [closeCode EXCEPT ![c] = o.code]
       /\ hpc' = [hpc EXCEPT ![c] = IF o.code = 0 THEN "on_connect" ELSE "closed"]
    /\ firstFrame' = [firstFrame EXCEPT ![c] = f]
    /\ UNCHANGED <<cliVars, bc, max_connections, require_auth, authenticator, is_running,
                   connections, connection_rooms, room_connections, wsOpen, nmsg>>

\* handler, lines 283, 325-328: recv raises because the peer went away.
AuthRecvClosed(c) ==
    /\ hpc[c] = "auth"
    /\ ~wsOpen[c]
    /\ hpc' = [hpc EXCEPT ![c] = "closed"]
    /\ closeCode' = [closeCode EXCEPT ![c] = 1011]
    /\ UNCHANGED <<cliVars, bc, max_connections, require_auth, authenticator, is_running,
                   connections, connection_rooms, room_connections, wsOpen,
                   wsUser, sent, firstFrame, nmsg>>

\* handler, lines 331-332: on_connect runs; if it returns, the connection is
\* registered, if it raises, the finally block is next.
OnConnect(c, call, raises) ==
    /\ hpc[c] = "on_connect"
    /\ connection_rooms' = AppEffect(call, c)[1]
    /\ room_connections' = AppEffect(call, c)[2]
    /\ IF raises
       THEN /\ hpc' = [hpc EXCEPT ![c] = "on_disconnect"]
            /\ UNCHANGED connections
       ELSE /\ hpc' = [hpc EXCEPT ![c] = "loop"]
            /\ connections' = connections \cup {c}
    /\ UNCHANGED <<cliVars, bc, max_connections, require_auth, authenticator, is_running,
                   wsOpen, wsUser, closeCode, sent, firstFrame, nmsg>>

\* The message loop without the try/except of lines 337-346 around one
\* frame: a frame that fails to decode ends the loop.
LoopRecvDecodeEnds(c, f, call, raises, returns) ==
    /\ hpc[c] = "loop"
    /\ wsOpen[c]
    /\ nmsg[c] < MaxMsgs
    /\ ~(raises /\ returns)
    /\ nmsg' = [nmsg EXCEPT ![c] = @ + 1]
    /\ IF f = Garbage
       THEN /\ hpc' = [hpc EXCEPT ![c] = "on_disconnect"]
            /\ UNCHANGED <<connection_rooms, room_connections, sent>>
       ELSE /\ connection_rooms' = AppEffect(call, c)[1]
            /\ room_connections' = AppEffect(call, c)[2]
            /\ sent' = [sent EXCEPT ![c] =
                          IF raises
                          THEN Append(@, create_error("DECODE_ERROR", "app", None))
                          ELSE @]
            /\ UNCHANGED hpc
    /\ UNCHANGED <<cliVars, bc, max_connections, require_auth, authenticator, is_running,
                   connections, wsOpen, wsUser, closeCode, firstFrame>>

\* handler, lines 335-346: one frame of the message loop. Every frame that
\* decodes, whatever its type, is handed to on_message, which does what the
\* application wrote, and either raises or returns; what it returns (a reply
\* envelope when `returns`, else None) is the value of the await expression
\* statement of line 339 and goes nowhere. A frame that fails to decode, or an
\* on_message that raises, is answered with a DECODE_ERROR envelope whose
\* message is str(e), and the loop goes on.
LoopRecv(c, f, call, raises, returns) ==
    /\ hpc[c] = "loop"
    /\ wsOpen[c]
    /\ nmsg[c] < MaxMsgs
    /\ ~(raises /\ returns)
    /\ nmsg' = [nmsg EXCEPT ![c] = @ + 1]
    /\ IF f = Garbage
       THEN /\ sent' = [sent EXCEPT ![c] =
                          Append(@, create_error("DECODE_ERROR", "decode", None))]
            /\ UNCHANGED <<connection_rooms, room_connections>>
       ELSE LET reply == IF returns
                         THEN create_response(f, PyDict("result"), PyNone)
                         ELSE None
            IN /\ connection_rooms' = AppEffect(call, c)[1]
               /\ room_connections' = AppEffect(call, c)[2]
               /\ sent' = [sent EXCEPT ![c] =
                             IF raises
                             THEN Append(@, create_error("DECODE_ERROR", "app", None))
                             ELSE @]
    /\ UNCHANGED <<cliVars, bc, max_connections, require_auth, authenticator, is_running,
                   connections, hpc, wsOpen, wsUser, closeCode, firstFrame>>

\* handler, lines 335, 348-350: the peer is gone, the loop ends.
LoopClosed(c) ==
    /\ hpc[c] = "loop"
    /\ ~wsOpen[c]
    /\ hpc' = [hpc EXCEPT ![c] = "on_disconnect"]
    /\ UNCHANGED <<cliVars, bc, max_connections, require_auth, authenticator, is_running,
                   connections, connection_rooms, room_connections, wsOpen,
                   wsUser, closeCode, sent, firstFrame, nmsg>>

\* handler, lines 350-353: the finally block. on_disconnect runs; only if it
\* returns is the connection deleted from self.connections.
OnDisconnect(c, call, raises) ==
    /\ hpc[c] = "on_disconnect"
    /\ connection_rooms' = AppEffect(call, c)[1]
    /\ room_connections' = AppEffect(call, c)[2]
    /\ connections' = IF raises THEN connections ELSE connections \ {c}
    /\ hpc' = [hpc EXCEPT ![c] = "closed"]
    /\ UNCHANGED <<cliVars, bc, max_connections, require_auth, authenticator, is_running,
                   wsOpen, wsUser, closeCode, sent, firstFrame, nmsg>>

\* The peer closes its side, or the transport fails.
PeerClose(c) ==
    /\ hpc[c] \in {"auth", "on_connect", "loop"}
    /\ wsOpen[c]
    /\ wsOpen' = [wsOpen EXCEPT ![c] = FALSE]
    /\ UNCHANGED <<cliVars, bc, max_connections, require_auth, authenticator, is_running,
                   connections, connection_rooms, room_connections, hpc,
                   wsUser, closeCode, sent, firstFrame, nmsg>>

\* stop(), lines 371-383: close every registered connection's transport.
Stop ==
    /\ is_running
    /\ wsOpen' = [c \in ConnIds |-> IF c \in connections THEN FALSE ELSE wsOpen[c]]
    /\ is_running' = FALSE
    /\ UNCHANGED <<cliVars, bc, max_connections, require_auth, authenticator,
                   connections, connection_rooms, room_connections, hpc,
                   wsUser, closeCode, sent, firstFrame, nmsg>>

\* The application's own calls of the public room API, for any room and any
\* connection id, that of a connection the handler never ran for included.
ApiConnIds == 1 .. (MaxConns + 1)

JoinRoom(r, c) ==
    /\ connection_rooms' = join_room(connection_rooms, room_connections, r, c)[1]
    /\ room_connections' = join_room(connection_rooms, room_connections, r, c)[2]
    /\ UNCHANGED <<cliVars, bc, max_connections, require_auth, authenticator, is_running,
                   connections, hpc, wsOpen, wsUser, closeCode, sent, firstFrame, nmsg>>

LeaveRoom(r, c) ==
    /\ connection_rooms' = leave_room(connection_rooms, room_connections, r, c)[1]
    /\ room_connections' = leave_room(connection_rooms, room_connections, r, c)[2]
    /\ UNCHANGED <<cliVars, bc, max_connections, require_auth, authenticator, is_running,
                   connections, hpc, wsOpen, wsUser, closeCode, sent, firstFrame, nmsg>>

LeaveAllRooms(c) ==
    /\ connection_rooms' = leave_all_rooms(connection_rooms, room_connections, c)[1]
    /\ room_connections' = leave_all_rooms(connection_rooms, room_connections, c)[2]
    /\ UNCHANGED <<cliVars, bc, max_connections, require_auth, authenticator, is_running,
                   connections, hpc, wsOpen, wsUser, closeCode, sent, firstFrame, nmsg>>

\* ------------------------------------------ server.py: broadcast_to_room
\* The for loop without the test of line 457.
BroadcastLoopUnchecked(b) ==
    \/ /\ b.todo = {}
       /\ bc' = [b EXCEPT !.pc = "done", !.cur = 0]
    \/ \E c \in b.todo :
          bc' = [b EXCEPT !.pc = "sending", !.cur = c, !.todo = @ \ {c}]

\* The for loop of lines 456-461 from its head to the next awaited send. The
\* members are visited in the iteration order of a set, which is left open; a
\* member that is not in self.connections at its turn is passed over.
BroadcastLoop(b) ==
    \/ /\ b.todo \cap connections = {}
       /\ bc' = [b EXCEPT !.pc = "done", !.cur = 0, !.todo = {},
                          !.skipped = @ \cup b.todo]
    \/ \E c \in b.todo \cap connections, passed \in SUBSET (b.todo \ connections) :
          bc' = [b EXCEPT !.pc = "sending", !.cur = c,
                          !.todo = @ \ ({c} \cup passed),
                          !.skipped = @ \cup passed]

\* broadcast_to_room(room_id, message), lines 448-458, up to the first send.
Broadcast(r) ==
    /\ bc.pc \in {"idle", "done"}
    /\ bc.n < MaxBroadcasts
    /\ LET b == [IdleBroadcast EXCEPT !.room = r, !.n = bc.n + 1] IN
       IF r \notin DOMAIN connection_rooms
       THEN bc' = [b EXCEPT !.pc = "done"]
       ELSE BroadcastLoop([b EXCEPT !.members = connection_rooms[r],
                                    !.registered = connections,
                                    !.todo = connection_rooms[r]])
    /\ UNCHANGED <<cliVars, max_connections, require_auth, authenticator, is_running,
                   connections, connection_rooms, room_connections, hpc, wsOpen,
                   wsUser, closeCode, sent, firstFrame, nmsg>>

\* A send that raises and is not caught would end broadcast_to_room there.
BroadcastSendDoneRaises ==
    /\ bc.pc = "sending"
    /\ LET c == bc.cur
           ok == wsOpen[c]
           b == [bc EXCEPT !.att = Append(@, [c |-> c, ok |-> ok])]
       IN /\ sent' = [sent EXCEPT ![c] =
                         IF ok THEN Append(@, create_event("update", PyDict(bc.n), bc.room))
                         ELSE @]
          /\ IF ok THEN BroadcastLoop(b)
             ELSE bc' = [b EXCEPT !.pc = "raised", !.cur = 0]
    /\ UNCHANGED <<cliVars, max_connections, require_auth, authenticator, is_running,
                   connections, connection_rooms, room_connections, hpc, wsOpen,
                   wsUser, closeCode, firstFrame, nmsg>>

\* broadcast_to_room, lines 458-461: the awaited send returns, or raises
\* because the transport is gone; the exception is logged and the loop goes on.
BroadcastSendDone ==
    /\ bc.pc = "sending"
    /\ LET c == bc.cur
           ok == wsOpen[c]
           b == [bc EXCEPT !.att = Append(@, [c |-> c, ok |-> ok])]
       IN /\ sent' = [sent EXCEPT ![c] =
                         IF ok THEN Append(@, create_event("update", PyDict(bc.n), bc.room))
                         ELSE @]
          /\ BroadcastLoop(b)
    /\ UNCHANGED <<cliVars, max_connections, require_auth, authenticator, is_running,
                   connections, connection_rooms, room_connections, hpc, wsOpen,
                   wsUser, closeCode, firstFrame, nmsg>>

\* The handler and stop(), with peers that send one frame in the message loop.
NextServer ==
    \/ \E c \in ConnIds : Accept(c)
    \/ \E c \in ConnIds, f \in FirstFrames : AuthRecv(c, f)
    \/ \E c \in ConnIds : AuthRecvClosed(c)
    \/ \E c \in ConnIds, call \in AppCalls, raises \in BOOLEAN : OnConnect(c, call, raises)
    \/ \E c \in ConnIds, f \in LoopFrames, call \in AppCalls,
          raises \in BOOLEAN, returns \in BOOLEAN :
          nmsg[c] = 0 /\ LoopRecv(c, f, call, raises, returns)
    \/ \E c \in ConnIds : LoopClosed(c)
    \/ \E c \in ConnIds, call \in DisconnectCalls, raises \in BOOLEAN :
          OnDisconnect(c, call, raises)
    \/ \E c \in ConnIds : PeerClose(c)
    \/ Stop

\* ------------------------------------------------------------- client.py
MaxTransports == 4      \* transports websockets.connect can return in a run
MaxConnectCalls == 1    \* connect() calls the caller makes
MaxRetries == 2         \* the max_retries the client is configured with
MaxDelayCfg == 2        \* initial_delay and max_delay range over 1 .. MaxDelayCfg
MaxRequests == 2        \* send_request() calls the caller makes
MaxTimeout == 2         \* the timeout argument ranges over None and 0 .. MaxTimeout

\* self.request_timeout, line 122, in the time unit of the timeout argument.
request_timeout == 30

TransportIds == 1 .. MaxTransports
\* A receive task is created right after a transport was opened, by the
\* coroutine that opened it: it is numbered like that transport. A supervisor
\* is created by a receive task that ends or by a connect() that fails.
SupIds == 1 .. (MaxTransports + MaxConnectCalls)

Min(a, b) == IF a <= b THEN a ELSE b

NoRecv == [st |-> "none", ws |-> 0, cancel |-> FALSE]
NoSup == [st |-> "none", attempt |-> 0, delay |-> 0, own |-> 0, visited |-> {},
          used |-> 0, cur |-> None, sendws |-> 0, cancel |-> FALSE, ok |-> FALSE]
IdleCall == [pc |-> "idle", task |-> 0]

ReqIds == 1 .. MaxRequests
\* `timeout: float | None = None`, line 348: the value standing for None.
NoTimeout == -1
Timeouts == {NoTimeout} \cup (0 .. MaxTimeout)
\* A send_request() call: its position, the id and correlation_id of its
\* request, the transport it sends on, its timeout argument and the timeout it
\* waits with, the time it has waited, its future and the future's result.
\* replied: an envelope carrying the request's correlation_id was received
\* after the call began and before its timeout elapsed. nset: set_result
\* calls on the future. nrem: removals of the request's entry from
\* self.pending_requests (a pop that found it).
IdleReq == [pc |-> "idle", id |-> 0, correlation_id |-> 0, ws |-> 0,
            T |-> NoTimeout, timeout |-> 0, elapsed |-> 0, fut |-> "none",
            result |-> 0, replied |-> FALSE, nset |-> 0, nrem |-> 0]

\* WebSocketClient.__init__, lines 98-130.
InitClient ==
    /\ cfg \in [reconnect : BOOLEAN, token : BOOLEAN, max_retries : {MaxRetries},
                initial_delay : 1 .. MaxDelayCfg, max_delay : 1 .. MaxDelayCfg]
    /\ netLimit \in 1 .. MaxTransports
    /\ websocket = 0
    /\ is_connected = FALSE
    /\ is_authenticated = FALSE
    /\ rooms = {}
    /\ receive_task = 0
    /\ reconnect_task = 0
    /\ recv = [t \in TransportIds |-> NoRecv]
    /\ sup = [i \in SupIds |-> NoSup]
    /\ tr = [t \in TransportIds |-> "unused"]
    /\ subs = [t \in TransportIds |-> {}]
    /\ connectCall = IdleCall
    /\ discCall = IdleCall
    /\ nConnect = 0
    /\ pending_requests = {}
    /\ reqs = [k \in ReqIds |-> IdleReq]
    /\ dcDone = FALSE
    /\ attempts = 0
    /\ roomsAtDrop = {}
    /\ callerActed = FALSE

\* The transport the next successful websockets.connect returns.
FreeT == {t \in 1 .. netLimit : tr[t] = "unused"}
NextT == CHOOSE t \in FreeT : \A u \in FreeT : t <= u

\* asyncio.create_task(self._reconnect_loop()), lines 187 and 265.
NewSupId == CHOOSE i \in SupIds :
                sup[i].st = "none" /\ \A j \in SupIds : sup[j].st = "none" => i <= j
\* The new task's first step (lines 269-277) only reaches its first sleep, or,
\* with max_retries = 0, its end: the task is created there.
Spawned(s) ==
    [s EXCEPT ![NewSupId] =
        IF cfg.max_retries = 0 THEN [NoSup EXCEPT !.st = "done"]
        ELSE [NoSup EXCEPT !.st = "sleep", !.delay = cfg.initial_delay]]

\* Supervisor i has been created and has not ended.
Active(i) == sup[i].st \in {"sleep", "opening", "auth", "sending"}

\* asyncio.create_task(self._receive_loop()), lines 180 and 292.
Created(rv, t) == [rv EXCEPT ![t] = [NoRecv EXCEPT !.st = "created"]]

\* The wait after a failed attempt, line 305.
NextDelay(delay) == Min(delay * 2, cfg.max_delay)

\* _reconnect_loop, lines 301-307: the except branch of an attempt, then the
\* next iteration of `for attempt in range(self.max_retries)` or the end.
SupFailed(s, i) ==
    [s EXCEPT ![i] =
        IF s[i].attempt + 1 < cfg.max_retries
        THEN [NoSup EXCEPT !.st = "sleep", !.attempt = s[i].attempt + 1,
                           !.delay = NextDelay(s[i].delay)]
        ELSE [NoSup EXCEPT !.st = "done"]]

\* Iteration order of `for room in self.rooms` (one order a set can have).
FirstRoom(S) == IF "a" \in S THEN "a" ELSE CHOOSE r \in S : TRUE

\* _reconnect_loop lines 295-299 with subscribe_to_room and send (lines
\* 402-408, 421): from the iterator's next() to the next await, for supervisor
\* i with `visited` iterated so far. ws, conn and rms are self.websocket,
\* self.is_connected and self.rooms at that point, trs the transports' states.
\* Gives the new sup and subs.
Resub(s, i, ws, conn, rms, visited, used, trs) ==
    IF Cardinality(rms) # used
    THEN [sup |-> SupFailed(s, i), subs |-> subs]       \* set changed size
    ELSE IF rms \ visited = {}
    THEN [sup |-> [s EXCEPT ![i] = [NoSup EXCEPT !.st = "done", !.ok = TRUE]],
          subs |-> subs]
    ELSE IF ~conn \/ ws = 0 \/ trs[ws] # "open"
    THEN [sup |-> SupFailed(s, i), subs |-> subs]       \* send raises
    ELSE LET r == FirstRoom(rms \ visited) IN
         [sup |-> [s EXCEPT ![i].st = "sending", ![i].cur = r, ![i].sendws = ws,
                            ![i].visited = visited, ![i].used = used],
          subs |-> [subs EXCEPT ![ws] = @ \cup {r}]]

\* ---- connect(), lines 158-189
ConnectRaised ==
    /\ connectCall' = IdleCall
    /\ IF cfg.reconnect
       THEN reconnect_task' = NewSupId /\ sup' = Spawned(sup)
       ELSE UNCHANGED <<reconnect_task, sup>>
    /\ UNCHANGED <<is_connected, is_authenticated, receive_task, recv>>

ConnectEstablished(t, authd) ==
    /\ connectCall' = IdleCall
    /\ is_connected' = TRUE
    /\ is_authenticated' = authd
    /\ receive_task' = t
    /\ recv' = Created(recv, t)
    /\ UNCHANGED <<reconnect_task, sup>>

\* connect() up to `await websockets.connect(...)`, lines 160-170.
ConnectCall ==
    /\ connectCall.pc = "idle"
    /\ discCall.pc = "idle"
    /\ nConnect < MaxConnectCalls
    /\ ~is_connected
    /\ connectCall' = [pc |-> "opening", task |-> 0]
    /\ nConnect' = nConnect + 1
    /\ dcDone' = FALSE
    /\ attempts' = 0
    /\ callerActed' = TRUE
    /\ UNCHANGED <<srvVars, envVars, rooms, connVars, taskVars, netVars, discCall,
                   reqVars, roomsAtDrop>>

\* websockets.connect returns a transport (ok) or raises, lines 170-189.
ConnectOpened(ok) ==
    /\ connectCall.pc = "opening"
    /\ IF ok
       THEN /\ FreeT # {}
            /\ tr' = [tr EXCEPT ![NextT] = "open"]
            /\ websocket' = NextT
            /\ IF cfg.token
               THEN /\ connectCall' = [pc |-> "auth", task |-> NextT]
                    /\ UNCHANGED <<is_connected, is_authenticated, taskVars>>
               ELSE ConnectEstablished(NextT, is_authenticated)
       ELSE /\ ConnectRaised
            /\ UNCHANGED <<tr, websocket>>
    /\ UNCHANGED <<srvVars, envVars, rooms, subs, discCall, nConnect, reqVars, histVars>>

\* _authenticate, lines 196-219, after its recv: the reply is a Response, an
\* Error, another kind, or the recv raised because the transport is gone.
AuthReplies == {"response", "error", "other", "closed"}

ConnectAuth(reply) ==
    /\ connectCall.pc = "auth"
    /\ (reply = "closed") = (tr[connectCall.task] # "open")
    /\ IF reply \in {"response", "other"}
       THEN ConnectEstablished(connectCall.task,
                               IF reply = "response" THEN TRUE ELSE is_authenticated)
       ELSE ConnectRaised
    /\ UNCHANGED <<srvVars, envVars, rooms, websocket, netVars, discCall, nConnect,
                   reqVars, histVars>>

\* ---- _receive_loop, lines 248-265
\* The finally block, lines 259-265.
RecvFinally(t) ==
    /\ recv' = [recv EXCEPT ![t] = [NoRecv EXCEPT !.st = "done"]]
    /\ is_connected' = FALSE
    /\ is_authenticated' = FALSE
    /\ IF cfg.reconnect
       THEN reconnect_task' = NewSupId /\ sup' = Spawned(sup)
       ELSE UNCHANGED <<reconnect_task, sup>>
    /\ UNCHANGED <<websocket, receive_task>>

\* The task's first step: `async for message in self.websocket` binds the
\* transport; with self.websocket None it raises and the finally block runs.
RecvStart(t) ==
    /\ recv[t].st = "created"
    /\ ~recv[t].cancel
    /\ IF websocket = 0
       THEN RecvFinally(t)
       ELSE /\ recv' = [recv EXCEPT ![t].st = "running", ![t].ws = websocket]
            /\ UNCHANGED <<connVars, receive_task, reconnect_task, sup>>
    /\ UNCHANGED <<srvVars, envVars, rooms, netVars, callVars, reqVars, histVars>>

\* The transport is gone: the loop ends (lines 251, 257-258) and the finally
\* block runs. This is the unexpected disconnect.
RecvEnd(t) ==
    /\ recv[t].st = "running"
    /\ ~recv[t].cancel
    /\ tr[recv[t].ws] = "closed"
    /\ RecvFinally(t)
    /\ attempts' = 0
    /\ roomsAtDrop' = rooms
    /\ callerActed' = (callerActed /\ \E i \in SupIds : Active(i))
    /\ UNCHANGED <<srvVars, envVars, rooms, netVars, callVars, reqVars, dcDone>>

\* The task was cancelled by disconnect(): CancelledError is raised at its
\* await, the finally block runs; a task that never started just ends.
RecvCancelled(t) ==
    /\ recv[t].st \in {"created", "running"}
    /\ recv[t].cancel
    /\ IF recv[t].st = "created"
       THEN /\ recv' = [recv EXCEPT ![t] = [NoRecv EXCEPT !.st = "done"]]
            /\ UNCHANGED <<connVars, receive_task, reconnect_task, sup>>
       ELSE RecvFinally(t)
    /\ UNCHANGED <<srvVars, envVars, rooms, netVars, callVars, reqVars, histVars>>

\* The server closes the transport, or the network fails.
TransportDrop(t) ==
    /\ tr[t] = "open"
    /\ tr' = [tr EXCEPT ![t] = "closed"]
    /\ subs' = [subs EXCEPT ![t] = {}]
    /\ UNCHANGED <<srvVars, envVars, rooms, connVars, taskVars, callVars,
                   reqVars, histVars>>

\* ---- _reconnect_loop, lines 267-307
\* A coroutine of the client is ready to run now: a task awaiting its first
\* step or the delivery of its cancellation, a receive loop whose transport
\* is gone, a supervisor whose send or recv is on a transport that is gone, a
\* disconnect() whose awaited task has ended. The event loop runs these
\* before a timer of initial_delay > 0 seconds or more is due.
Runnable ==
    \/ \E t \in TransportIds :
          \/ recv[t].st = "created"
          \/ recv[t].st = "running" /\ (recv[t].cancel \/ tr[recv[t].ws] = "closed")
    \/ \E i \in SupIds :
          \/ sup[i].cancel /\ sup[i].st \in {"sleep", "opening", "auth", "sending"}
          \/ sup[i].st = "sending" /\ tr[sup[i].sendws] = "closed"
          \/ sup[i].st = "auth" /\ tr[sup[i].own] = "closed"
    \/ discCall.pc = "await_recv" /\ recv[discCall.task].st = "done"
    \/ discCall.pc = "await_reconn" /\ sup[discCall.task].st = "done"

\* Lines 277-282: asyncio.sleep(delay) is over, websockets.connect is called.
SupWake(i) ==
    /\ sup[i].st = "sleep"
    /\ ~sup[i].cancel
    /\ ~Runnable
    /\ sup' = [sup EXCEPT ![i].st = "opening"]
    /\ attempts' = attempts + 1
    /\ UNCHANGED <<srvVars, envVars, rooms, connVars, receive_task, reconnect_task,
                   recv, netVars, callVars, reqVars, dcDone, roomsAtDrop,
                   callerActed>>

\* Lines 288-296: the attempt has its transport (and its auth reply):
\* is_connected, a new receive task, then the re-subscription up to its
\* first await.
SupEstablished(i, t, ws, trs) ==
    /\ is_connected' = TRUE
    /\ receive_task' = t
    /\ recv' = Created(recv, t)
    /\ LET s1 == [sup EXCEPT ![i].own = t]
           res == Resub(s1, i, ws, TRUE, rooms, {}, Cardinality(rooms), trs)
       IN /\ sup' = res.sup
          /\ subs' = res.subs
          /\ attempts' = IF res.sup[i].ok THEN 0 ELSE attempts
    /\ UNCHANGED <<reconnect_task, dcDone, roomsAtDrop, callerActed>>

\* Lines 282-286: websockets.connect returns a transport (ok) or raises.
SupOpened(i, ok) ==
    /\ sup[i].st = "opening"
    /\ ~sup[i].cancel
    /\ IF ok
       THEN /\ FreeT # {}
            /\ tr' = [tr EXCEPT ![NextT] = "open"]
            /\ websocket' = NextT
            /\ IF cfg.token
               THEN /\ sup' = [sup EXCEPT ![i].st = "auth", ![i].own = NextT]
                    /\ UNCHANGED <<is_connected, receive_task, reconnect_task,
                                   recv, subs, histVars>>
               ELSE SupEstablished(i, NextT, NextT, tr')
       ELSE /\ sup' = SupFailed(sup, i)
            /\ UNCHANGED <<tr, websocket, is_connected, receive_task,
                           reconnect_task, recv, subs, histVars>>
    /\ UNCHANGED <<srvVars, envVars, rooms, is_authenticated, callVars, reqVars>>

\* Lines 285-296: _authenticate returns or raises.
SupAuth(i, reply) ==
    /\ sup[i].st = "auth"
    /\ ~sup[i].cancel
    /\ (reply = "closed") = (tr[sup[i].own] # "open")
    /\ IF reply \in {"response", "other"}
       THEN /\ is_authenticated' = IF reply = "response" THEN TRUE ELSE is_authenticated
            /\ SupEstablished(i, sup[i].own, websocket, tr)
       ELSE /\ sup' = SupFailed(sup, i)
            /\ UNCHANGED <<is_connected, is_authenticated, receive_task,
                           reconnect_task, recv, subs, histVars>>
    /\ UNCHANGED <<srvVars, envVars, rooms, websocket, tr, callVars, reqVars>>

\* Lines 408, 422, 295-299: the send of a subscribe returns (or raises, the
\* transport having gone meanwhile), the room is added, the iteration goes on.
SupSendDone(i) ==
    /\ sup[i].st = "sending"
    /\ ~sup[i].cancel
    /\ IF tr[sup[i].sendws] # "open"
       THEN /\ sup' = SupFailed(sup, i)
            /\ UNCHANGED <<rooms, subs, attempts>>
       ELSE /\ rooms' = rooms \cup {sup[i].cur}
            /\ LET res == Resub(sup, i, websocket, is_connected, rooms',
                                sup[i].visited \cup {sup[i].cur}, sup[i].used, tr)
               IN /\ sup' = res.sup
                  /\ subs' = res.subs
                  /\ attempts' = IF res.sup[i].ok THEN 0 ELSE attempts
    /\ UNCHANGED <<srvVars, envVars, connVars, receive_task, reconnect_task, recv,
                   tr, callVars, reqVars, dcDone, roomsAtDrop, callerActed>>

\* The task was cancelled by disconnect(): CancelledError ends it at its await.
SupCancelled(i) ==
    /\ sup[i].st \in {"sleep", "opening", "auth", "sending"}
    /\ sup[i].cancel
    /\ sup' = [sup EXCEPT ![i] = [NoSup EXCEPT !.st = "done"]]
    /\ UNCHANGED <<srvVars, envVars, rooms, connVars, receive_task, reconnect_task,
                   recv, netVars, callVars, reqVars, histVars>>

\* ---- subscribe_to_room, lines 410-423, called by the application: send
\* raises when not connected or the transport is gone.
CanSend == is_connected /\ websocket # 0 /\ tr[websocket] = "open"

Subscribe(r) ==
    /\ connectCall.pc = "idle" /\ discCall.pc = "idle"
    /\ CanSend
    /\ r \notin rooms
    /\ subs' = [subs EXCEPT ![websocket] = @ \cup {r}]
    /\ rooms' = rooms \cup {r}
    /\ callerActed' = TRUE
    /\ UNCHANGED <<srvVars, envVars, connVars, taskVars, tr, callVars, reqVars,
                   dcDone, attempts, roomsAtDrop>>

\* ---- disconnect(), lines 221-246
\* Lines 244-246.
DiscReturn ==
    /\ is_connected' = FALSE
    /\ is_authenticated' = FALSE
    /\ websocket' = 0
    /\ discCall' = IdleCall
    /\ dcDone' = TRUE

\* Lines 240-242: close the transport, if any, and wait for the close.
DiscClose ==
    IF websocket # 0
    THEN /\ tr' = [tr EXCEPT ![websocket] = "closed"]
         /\ subs' = [subs EXCEPT ![websocket] = {}]
         /\ discCall' = [pc |-> "closing", task |-> 0]
         /\ UNCHANGED <<connVars, dcDone>>
    ELSE /\ DiscReturn
         /\ UNCHANGED <<tr, subs>>

\* Lines 233-238: cancel self.reconnect_task and wait for it.
DiscCancelReconnect ==
    IF reconnect_task # 0 /\ sup[reconnect_task].st # "done"
    THEN /\ sup' = [sup EXCEPT ![reconnect_task].cancel = TRUE]
         /\ discCall' = [pc |-> "await_reconn", task |-> reconnect_task]
         /\ UNCHANGED <<connVars, dcDone, tr, subs>>
    ELSE /\ DiscClose
         /\ UNCHANGED sup

\* Lines 223-231: cancel self.receive_task and wait for it.
DisconnectCall ==
    /\ connectCall.pc = "idle"
    /\ discCall.pc = "idle"
    /\ ~dcDone
    /\ nConnect > 0
    /\ IF receive_task # 0 /\ recv[receive_task].st # "done"
       THEN /\ recv' = [recv EXCEPT ![receive_task].cancel = TRUE]
            /\ discCall' = [pc |-> "await_recv", task |-> receive_task]
            /\ UNCHANGED <<connVars, dcDone, tr, subs, sup>>
       ELSE /\ DiscCancelReconnect
            /\ UNCHANGED recv
    /\ callerActed' = TRUE
    /\ UNCHANGED <<srvVars, envVars, rooms, receive_task, reconnect_task,
                   connectCall, nConnect, reqVars, attempts, roomsAtDrop>>

\* The cancelled receive task has ended: disconnect() goes on at line 233.
DiscAfterRecv ==
    /\ discCall.pc = "await_recv"
    /\ recv[discCall.task].st = "done"
    /\ DiscCancelReconnect
    /\ UNCHANGED <<srvVars, envVars, rooms, receive_task, reconnect_task, recv,
                   connectCall, nConnect, reqVars, attempts, roomsAtDrop,
                   callerActed>>

\* The cancelled supervisor has ended: disconnect() goes on at line 240.
DiscAfterReconnect ==
    /\ discCall.pc = "await_reconn"
    /\ sup[discCall.task].st = "done"
    /\ DiscClose
    /\ UNCHANGED <<srvVars, envVars, rooms, taskVars, connectCall, nConnect,
                   reqVars, attempts, roomsAtDrop, callerActed>>

\* The close is done: lines 244-246.
DiscClosed ==
    /\ discCall.pc = "closing"
    /\ DiscReturn
    /\ UNCHANGED <<srvVars, envVars, rooms, taskVars, netVars, connectCall, nConnect,
                   reqVars, attempts, roomsAtDrop, callerActed>>

\* ---- send_request, lines 344-389, and _handle_message, lines 309-323
\* WebSocketProtocol.create_request, protocol.py lines 74-87: the k-th request
\* gets two uuid4() values, one as its id (the default of the id field) and
\* one as its correlation_id; 0 stands for None.
create_request(k) == [id |-> 2 * k - 1, correlation_id |-> 2 * k]

\* `timeout or self.request_timeout`, line 379: None and 0 are both falsy.
EffectiveTimeout(T) == IF T = NoTimeout \/ T = 0 THEN request_timeout ELSE T

\* Lines 365-376: the call up to `await self.websocket.send(encoded)`.
SendRequest(k, T) ==
    /\ reqs[k].pc = "idle"
    /\ \A j \in ReqIds : j < k => reqs[j].pc # "idle"
    /\ IF ~is_connected
       THEN /\ reqs' = [reqs EXCEPT ![k].pc = "conn_error", ![k].T = T]
            /\ UNCHANGED pending_requests
       ELSE LET request == create_request(k) IN
            /\ pending_requests' = pending_requests \cup {request.id}
            /\ reqs' = [reqs EXCEPT ![k] =
                   [IdleReq EXCEPT !.pc = "sending", !.id = request.id,
                                   !.correlation_id = request.correlation_id,
                                   !.ws = websocket, !.T = T, !.fut = "pending"]]
    /\ UNCHANGED <<srvVars, envVars, rooms, connVars, taskVars, netVars,
                   callVars, histVars>>

\* self.pending_requests.pop(request.id, None), lines 385 and 389, seen from
\* the call's record r.
Popped(r) == IF r.id \in pending_requests THEN [r EXCEPT !.nrem = @ + 1] ELSE r

\* Lines 376-380: the send returns and the wait on the future begins, or the
\* send raises and the finally block (line 389) runs.
RequestSent(k) ==
    /\ reqs[k].pc = "sending"
    /\ IF reqs[k].ws # 0 /\ tr[reqs[k].ws] = "open"
       THEN /\ reqs' = [reqs EXCEPT ![k].pc = "waiting", ![k].elapsed = 0,
                                    ![k].timeout = EffectiveTimeout(reqs[k].T)]
            /\ UNCHANGED pending_requests
       ELSE /\ reqs' = [reqs EXCEPT ![k] = Popped([reqs[k] EXCEPT !.pc = "send_error"])]
            /\ pending_requests' = pending_requests \ {reqs[k].id}
    /\ UNCHANGED <<srvVars, envVars, rooms, connVars, taskVars, netVars,
                   callVars, histVars>>

\* The correlation ids a peer can put in an envelope: None, or the id or the
\* correlation_id of a request it was sent.
OnWire == {0} \cup UNION {{reqs[k].id, reqs[k].correlation_id} :
                            k \in {j \in ReqIds : reqs[j].pc \notin {"idle", "conn_error"}}}
MessageTypes == {"response", "event"}

\* future.done(), line 318: the future has a result or was cancelled.
FutureDone(r) == r.fut # "pending"

\* _receive_loop lines 251-254 with _handle_message, lines 316-323, for an
\* inbound envelope of the given correlation_id and type. An Event that is
\* not a reply goes to the event handlers, which hold no state of the client.
Deliver(cid, type) ==
    /\ \E t \in TransportIds :
          recv[t].st = "running" /\ ~recv[t].cancel /\ tr[recv[t].ws] = "open"
    /\ cid \in OnWire
    /\ pending_requests' =
          IF cid # 0 /\ cid \in pending_requests
          THEN pending_requests \ {cid} ELSE pending_requests
    /\ reqs' = [k \in ReqIds |->
          LET r == reqs[k]
              found == cid # 0 /\ cid \in pending_requests /\ r.id = cid
              r0 == IF found THEN [r EXCEPT !.nrem = @ + 1] ELSE r
              r1 == IF found /\ ~FutureDone(r)
                    THEN [r0 EXCEPT !.fut = "done", !.result = cid, !.nset = @ + 1]
                    ELSE r0
          IN IF cid # 0 /\ cid = r.correlation_id
                /\ (r.pc = "sending" \/ (r.pc = "waiting" /\ r.elapsed < r.timeout))
             THEN [r1 EXCEPT !.replied = TRUE] ELSE r1]
    /\ UNCHANGED <<srvVars, envVars, rooms, connVars, taskVars, netVars,
                   callVars, histVars>>

\* Line 380-382 and 389: the future has its result, wait_for returns it.
RequestReturn(k) ==
    /\ reqs[k].pc = "waiting"
    /\ reqs[k].fut = "done"
    /\ reqs' = [reqs EXCEPT ![k] = Popped([reqs[k] EXCEPT !.pc = "returned"])]
    /\ pending_requests' = pending_requests \ {reqs[k].id}
    /\ UNCHANGED <<srvVars, envVars, rooms, connVars, taskVars, netVars,
                   callVars, histVars>>

\* Line 380: wait_for's timeout is due and the future has no result. The
\* timer's callback runs; send_request itself resumes in a later step.
\* Whether the callback cancels the future at once or leaves that to the
\* resumed wait_for depends on the asyncio version: both are modelled.
RequestTimeout(k, cancels) ==
    /\ reqs[k].pc = "waiting"
    /\ reqs[k].fut = "pending"
    /\ reqs[k].elapsed >= reqs[k].timeout
    /\ reqs' = [reqs EXCEPT ![k].pc = "expired",
                            ![k].fut = IF cancels THEN "cancelled" ELSE @]
    /\ UNCHANGED <<srvVars, envVars, rooms, connVars, taskVars, netVars,
                   callVars, pending_requests, histVars>>

\* RequestExpired without wait_for's look at the future: TimeoutError always.
RequestExpiredAlwaysRaises(k) ==
    /\ reqs[k].pc = "expired"
    /\ reqs' = [reqs EXCEPT ![k] = Popped([reqs[k] EXCEPT !.pc = "timeout"])]
    /\ pending_requests' = pending_requests \ {reqs[k].id}
    /\ UNCHANGED <<srvVars, envVars, rooms, connVars, taskVars, netVars,
                   callVars, histVars>>

\* Lines 380-389: wait_for resumes after its timeout. A future that got its
\* result meanwhile is returned; otherwise the future is cancelled and
\* TimeoutError raised (lines 384-386). The finally block runs (line 389).
RequestExpired(k) ==
    /\ reqs[k].pc = "expired"
    /\ reqs' = [reqs EXCEPT ![k] =
           Popped(IF reqs[k].fut = "done"
                  THEN [reqs[k] EXCEPT !.pc = "returned"]
                  ELSE [reqs[k] EXCEPT !.pc = "timeout", !.fut = "cancelled"])]
    /\ pending_requests' = pending_requests \ {reqs[k].id}
    /\ UNCHANGED <<srvVars, envVars, rooms, connVars, taskVars, netVars,
                   callVars, histVars>>

\* One time unit passes for the calls that wait. A call whose future has its
\* result, or whose timeout is due, runs before more time passes.
Tick ==
    /\ \E k \in ReqIds : reqs[k].pc = "waiting"
    /\ \A k \in ReqIds :
          /\ reqs[k].pc # "expired"
          /\ reqs[k].pc = "waiting" =>
                 reqs[k].fut = "pending" /\ reqs[k].elapsed < reqs[k].timeout
    /\ reqs' = [k \in ReqIds |->
          IF reqs[k].pc = "waiting" THEN [reqs[k] EXCEPT !.elapsed = @ + 1]
          ELSE reqs[k]]
    /\ UNCHANGED <<srvVars, envVars, rooms, connVars, taskVars, netVars,
                   callVars, pending_requests, histVars>>

NextClient ==
    \/ ConnectCall
    \/ \E ok \in BOOLEAN : ConnectOpened(ok)
    \/ \E reply \in AuthReplies : ConnectAuth(reply)
    \/ \E t \in TransportIds : RecvStart(t)
    \/ \E t \in TransportIds : RecvEnd(t)
    \/ \E t \in TransportIds : RecvCancelled(t)
    \/ \E t \in TransportIds : TransportDrop(t)
    \/ \E i \in SupIds : SupWake(i)
    \/ \E i \in SupIds, ok \in BOOLEAN : SupOpened(i, ok)
    \/ \E i \in SupIds, reply \in AuthReplies : SupAuth(i, reply)
    \/ \E i \in SupIds : SupSendDone(i)
    \/ \E i \in SupIds : SupCancelled(i)
    \/ \E r \in Rooms : Subscribe(r)
    \/ DisconnectCall
    \/ DiscAfterRecv
    \/ DiscAfterReconnect
    \/ DiscClosed

\* ---------------------------------------------------------------- auth.py
TicksPerSecond == 2     \* clock ticks in one second
MaxClock == 6           \* the clock runs from 0 to MaxClock ticks
MaxTtl == 2             \* token_expiry ranges over 1 .. MaxTtl seconds

Permissions == {"read", "write"}
secret == "secret-one"                         \* self.secret
Signatures == {"secret-one", "secret-two", "tampered"}

\* An optional list: absent (None, or a missing key) or a list, kept as the
\* set of its entries.
Absent == [has |-> FALSE, v |-> {}]
ListOf(set) == [has |-> TRUE, v |-> set]
OptLists == {Absent} \cup {ListOf(set) : set \in SUBSET Permissions}

\* Payloads create_token is called with: a user id, and permissions or not.
Payloads == [user_id : {"user123"}, permissions : OptLists]

NoToken == [kind |-> "none"]
NoCheck == [op |-> "none"]

\* jwt.encode turns a datetime in exp or iat into timegm(utctimetuple()):
\* whole seconds, the fraction dropped.
IntDate(t) == t \div TicksPerSecond

\* create_token(payload), lines 80-88; t1 and t2 are what the two
\* datetime.now(UTC) calls of lines 83 and 84 return.
create_token(payload, t1, t2) ==
    [kind |-> "jwt", sig |-> secret, payload |-> payload,
     exp |-> IntDate(t1 + token_expiry * TicksPerSecond),
     iat |-> IntDate(t2)]

\* Things verify_token can be handed that are no token: a string that is not
\* three base64 segments ("only.two", "", "invalid-token"), a str that cannot
\* be encoded as UTF-8 (a lone surrogate), a value that is not a str (None).
Malformed == [kind |-> "malformed"]
NotUtf8 == [kind |-> "not_utf8"]
NotStr == [kind |-> "not_str"]

\* The exceptions of jwt.exceptions below InvalidTokenError.
InvalidTokenErrors ==
    {"DecodeError", "InvalidSignatureError", "ExpiredSignatureError",
     "ImmatureSignatureError"}

Raises(exc) == [ok |-> FALSE, exc |-> exc]

\* jwt.decode(token, self.secret, algorithms=[self.algorithm]) at time now,
\* line 109: the token is encoded to bytes and split, its signature is
\* verified, then iat and exp are validated. Before 2.6.0 the time is
\* taken in whole seconds and a token is expired when exp < now; from 2.6.0
\* on the time keeps its fraction and a token is expired when exp <= now.
jwt_decode(token, key, now) ==
    CASE token.kind = "not_utf8" -> Raises("UnicodeEncodeError")
      [] token.kind \in {"malformed", "not_str"} -> Raises("DecodeError")
      [] OTHER ->
           IF token.sig # key THEN Raises("InvalidSignatureError")
           ELSE IF jwt_version = "2.6" /\ token.iat * TicksPerSecond > now
           THEN Raises("ImmatureSignatureError")
           ELSE IF \/ jwt_version = "2.6" /\ token.exp * TicksPerSecond <= now
                   \/ jwt_version = "2.5" /\ token.exp < IntDate(now)
           THEN Raises("ExpiredSignatureError")
           ELSE [ok |-> TRUE,
                 payload |-> [user_id |-> token.payload.user_id,
                              permissions |-> token.payload.permissions,
                              exp |-> token.exp, iat |-> token.iat]]

NoClaim == [out |-> "None"]
Claim(payload) == [out |-> "claim", payload |-> payload]
Raised(exc) == [out |-> "raised", exc |-> exc]

\* verify_token(token), lines 104-120, with a handler that lets the
\* exception of an expired token through.
verify_token_expired_raises(token, now) ==
    LET d == jwt_decode(token, secret, now) IN
    IF d.ok THEN Claim(d.payload)
    ELSE IF d.exc \in InvalidTokenErrors \ {"ExpiredSignatureError"} THEN NoClaim
    ELSE Raised(d.exc)

\* verify_token(token), lines 104-120: the payload, None for the exceptions
\* the two except clauses name; any other exception goes to the caller.
verify_token(token, now) ==
    LET d == jwt_decode(token, secret, now) IN
    IF d.ok THEN Claim(d.payload)
    ELSE IF d.exc \in InvalidTokenErrors THEN NoClaim
    ELSE Raised(d.exc)

\* payload.get("permissions", []), line 155
user_permissions(payload) ==
    IF payload.permissions.has THEN payload.permissions.v ELSE {}

\* authenticate_connection with any() for all() at line 156.
authenticate_any(token, required_permissions, now) ==
    LET r == verify_token(token, now) IN
    IF r.out # "claim" THEN r
    ELSE IF /\ required_permissions.has /\ required_permissions.v # {}
            /\ ~ \E perm \in required_permissions.v : perm \in user_permissions(r.payload)
    THEN NoClaim
    ELSE r

\* authenticate_connection(token, required_permissions=None), lines 148-163.
\* (authenticate_connection above is this call as the server's handshake
\* makes it, with a token that verifies or not and no required permissions.)
authenticate(token, required_permissions, now) ==
    LET r == verify_token(token, now) IN
    IF r.out # "claim" THEN r
    ELSE IF /\ required_permissions.has /\ required_permissions.v # {}
            /\ ~ \A perm \in required_permissions.v : perm \in user_permissions(r.payload)
    THEN NoClaim
    ELSE r

\* WebSocketAuthenticator.__init__, lines 58-60, before any call.
InitAuth ==
    /\ clock = 0
    /\ token_expiry \in 1 .. MaxTtl
    /\ jwt_version \in {"2.5", "2.6"}
    /\ issued = [tok |-> NoToken, t0 |-> 0]
    /\ checked = NoCheck

\* The authenticator in one configuration, never called.
AuthIdle == InitAuth /\ token_expiry = 1 /\ jwt_version = "2.6"

\* Time passes.
ClockTick ==
    /\ clock < MaxClock
    /\ clock' = clock + 1
    /\ UNCHANGED <<srvVars, cfg, netLimit, rooms, connVars, taskVars, netVars,
                   callVars, reqVars, histVars, codecVars, token_expiry, jwt_version,
                   issued, checked>>

\* create_token(payload) is called; the clock may tick between its two
\* readings.
CreateToken(payload, gap) ==
    /\ issued.tok = NoToken
    /\ clock + gap <= MaxClock
    /\ issued' = [tok |-> create_token(payload, clock, clock + gap), t0 |-> clock]
    /\ clock' = clock + gap
    /\ UNCHANGED <<srvVars, cfg, netLimit, rooms, connVars, taskVars, netVars,
                   callVars, reqVars, histVars, codecVars, token_expiry, jwt_version, checked>>

\* What a peer can present: the token issued, that token with its signature
\* replaced, and things that are no token.
Presented ==
    {Malformed, NotUtf8, NotStr}
    \cup (IF issued.tok = NoToken THEN {}
          ELSE {[issued.tok EXCEPT !.sig = g] : g \in Signatures})

\* verify_token(token) is called; one call is followed in a run.
VerifyToken(token) ==
    /\ checked = NoCheck
    /\ checked' = [op |-> "verify", token |-> token, required |-> Absent,
                   at |-> clock, res |-> verify_token(token, clock)]
    /\ UNCHANGED <<srvVars, cfg, netLimit, rooms, connVars, taskVars, netVars,
                   callVars, reqVars, histVars, codecVars, clock, token_expiry, jwt_version,
                   issued>>

\* authenticate_connection(token, required_permissions) is called.
Authenticate(token, required_permissions) ==
    /\ checked = NoCheck
    /\ checked' = [op |-> "authenticate", token |-> token,
                   required |-> required_permissions, at |-> clock,
                   res |-> authenticate(token, required_permissions, clock)]
    /\ UNCHANGED <<srvVars, cfg, netLimit, rooms, connVars, taskVars, netVars,
                   callVars, reqVars, histVars, codecVars, clock, token_expiry, jwt_version,
                   issued>>

NextAuth ==
    \/ ClockTick
    \/ \E payload \in Payloads, gap \in {0, 1} : CreateToken(payload, gap)
    \/ \E token \in Presented : VerifyToken(token)
    \/ \E token \in Presented, required \in OptLists : Authenticate(token, required)

\* ----------------------------------------- protocol.py: encode / decode
\* Python values of a payload entry (data: Dict[str, Any]) and JSON values.
PyValue(ty, v) == [ty |-> ty, v |-> v]
PayloadValues ==
    {PyValue("str", "x"), PyValue("int", "1"), PyValue("none", "None"),
     PyValue("list", "1,2"), PyValue("tuple", "1,2")}

\* A JSON value: a string, a number, an array or null; Missing stands for a
\* field the JSON object does not have.
JValue(j, v) == [j |-> j, v |-> v]
JNull == JValue("null", "-")
Missing == JValue("missing", "-")

\* json serialisation of one Python value: a tuple is written as an array,
\* like a list.
ToJson(x) ==
    CASE x.ty = "str" -> JValue("str", x.v)
      [] x.ty = "int" -> JValue("num", x.v)
      [] x.ty = "none" -> JNull
      [] x.ty \in {"list", "tuple"} -> JValue("arr", x.v)

\* json parsing of one value: an array is read as a list.
FromJson(y) ==
    CASE y.j = "str" -> PyValue("str", y.v)
      [] y.j = "num" -> PyValue("int", y.v)
      [] y.j = "null" -> PyValue("none", "None")
      [] y.j = "arr" -> PyValue("list", y.v)

\* An Optional[str] field and its JSON form.
OptToJson(x) == IF x = None THEN JNull ELSE JValue("str", x)

\* A payload: no entry, or one entry under the key "k".
EmptyData == [n |-> 0, k |-> PyValue("none", "None")]
Datas == {EmptyData} \cup {[n |-> 1, k |-> x] : x \in PayloadValues}

\* class MessageType, lines 10-26
AllMessageTypes ==
    {"request", "subscribe", "unsubscribe", "ping", "response", "event",
     "error", "pong", "ack"}

\* The valid WebSocketMessage objects, lines 29-50.
Messages ==
    [id : {"m1"}, correlation_id : {None, "c1"}, type : AllMessageTypes,
     event : {None, "e1"}, data : Datas, timestamp : {"t1"}, room : {None, "a"},
     error_code : {None}, error_message : {None}]
    \cup
    [id : {"m1"}, correlation_id : {None, "c1"}, type : {"error"},
     event : {None}, data : {EmptyData}, timestamp : {"t1"}, room : {None},
     error_code : {"E1"}, error_message : {"failed"}]

NoMessage == [type |-> "none"]
NoWire == [kind |-> "none"]
NotDecoded == [type |-> "not_decoded"]

\* encode without the id: model_dump_json(exclude={"id"}).
encode_without_id(m) ==
    [kind |-> "object",
     id |-> Missing,
     correlation_id |-> OptToJson(m.correlation_id),
     type |-> JValue("str", m.type),
     event |-> OptToJson(m.event),
     data |-> [n |-> m.data.n, k |-> ToJson(m.data.k)],
     timestamp |-> JValue("str", m.timestamp),
     room |-> OptToJson(m.room),
     error_code |-> OptToJson(m.error_code),
     error_message |-> OptToJson(m.error_message)]

\* encode(message), lines 64-67: model_dump_json() writes every field, None
\* as null and the payload's values as JSON.
encode(m) ==
    [kind |-> "object",
     id |-> JValue("str", m.id),
     correlation_id |-> OptToJson(m.correlation_id),
     type |-> JValue("str", m.type),
     event |-> OptToJson(m.event),
     data |-> [n |-> m.data.n, k |-> ToJson(m.data.k)],
     timestamp |-> JValue("str", m.timestamp),
     room |-> OptToJson(m.room),
     error_code |-> OptToJson(m.error_code),
     error_message |-> OptToJson(m.error_message)]

\* Validation of one field of the JSON object against its declaration.
\* A field declared `str = Field(default_factory=...)` may be absent; one
\* declared Optional[str] = None may be absent or null.
DefaultStr == {"missing", "str"}
OptionalStr == {"missing", "null", "str"}
OptStr(y) == IF y.j = "str" THEN y.v ELSE None

\* decode(json_str), lines 69-72: model_validate_json. type has no default
\* and must be a MessageType value; id and timestamp take their
\* default_factory when absent; the Optional fields default to None and data
\* to an empty dict.
decode(w) ==
    IF w.kind # "object" THEN ValidationError
    ELSE IF ~ ( /\ w.type.j = "str" /\ w.type.v \in AllMessageTypes
                /\ w.id.j \in DefaultStr /\ w.timestamp.j \in DefaultStr
                /\ w.correlation_id.j \in OptionalStr /\ w.event.j \in OptionalStr
                /\ w.room.j \in OptionalStr /\ w.error_code.j \in OptionalStr
                /\ w.error_message.j \in OptionalStr )
    THEN ValidationError
    ELSE [id |-> IF w.id.j = "missing" THEN "uuid4" ELSE w.id.v,
          correlation_id |-> OptStr(w.correlation_id),
          type |-> w.type.v,
          event |-> OptStr(w.event),
          data |-> [n |-> w.data.n, k |-> FromJson(w.data.k)],
          timestamp |-> IF w.timestamp.j = "missing" THEN "now" ELSE w.timestamp.v,
          room |-> OptStr(w.room),
          error_code |-> OptStr(w.error_code),
          error_message |-> OptStr(w.error_message)]

\* Texts a peer can send: not JSON at all, or the text of a message with
\* some of its fields left out or of the wrong JSON type.
Without(w, fields, y) ==
    [w EXCEPT !.id = IF "id" \in fields THEN y ELSE @,
              !.type = IF "type" \in fields THEN y ELSE @,
              !.correlation_id = IF "correlation_id" \in fields THEN y ELSE @]

\* Nothing encoded or decoded yet.
InitCodec ==
    /\ message = NoMessage
    /\ wire = NoWire
    /\ decoded = NotDecoded

\* encode(message) is called.
Encode(m) ==
    /\ wire = NoWire
    /\ message' = m
    /\ wire' = encode(m)
    /\ UNCHANGED <<srvVars, cfg, netLimit, rooms, connVars, taskVars, netVars,
                   callVars, reqVars, histVars, authVars, decoded>>

\* A text arrives from a peer.
Receive(m, fields, y) ==
    /\ wire = NoWire
    /\ wire' = Without(encode(m), fields, y)
    /\ UNCHANGED <<srvVars, cfg, netLimit, rooms, connVars, taskVars, netVars,
                   callVars, reqVars, histVars, authVars, message, decoded>>

ReceiveNotJson ==
    /\ wire = NoWire
    /\ wire' = [kind |-> "not_json"]
    /\ UNCHANGED <<srvVars, cfg, netLimit, rooms, connVars, taskVars, netVars,
                   callVars, reqVars, histVars, authVars, message, decoded>>

\* decode(json_str) is called on the text.
Decode ==
    /\ wire # NoWire
    /\ decoded = NotDecoded
    /\ decoded' = decode(wire)
    /\ UNCHANGED <<srvVars, cfg, netLimit, rooms, connVars, taskVars, netVars,
                   callVars, reqVars, histVars, authVars, message, wire>>

NextCodec ==
    \/ \E m \in Messages : Encode(m)
    \/ \E m \in Messages, fields \in SUBSET {"id", "type", "correlation_id"} \ {{}}, y \in {Missing, JValue("num", "1")} :
          Receive(m, fields, y)
    \/ ReceiveNotJson
    \/ Decode

\* ------------------------------------------------------- specifications
\* The server alone: the client stays as constructed, in one configuration.
ClientIdle ==
    /\ InitClient
    /\ netLimit = MaxTransports
    /\ cfg = [reconnect |-> FALSE, token |-> FALSE, max_retries |-> MaxRetries,
              initial_delay |-> 1, max_delay |-> 1]

\* The client alone: the server stays as constructed, in one configuration.
ServerIdle ==
    /\ InitServer
    /\ max_connections = 1 /\ ~require_auth /\ ~authenticator

InitSpecServer == InitServer /\ ClientIdle /\ AuthIdle /\ InitCodec

SpecServer == InitSpecServer /\ [][NextServer]_vars

\* The room API alone, called by the application in any order.
NextRooms ==
    \/ \E r \in Rooms, c \in ApiConnIds : JoinRoom(r, c)
    \/ \E r \in Rooms, c \in ApiConnIds : LeaveRoom(r, c)
    \/ \E c \in ApiConnIds : LeaveAllRooms(c)

InitSpecRooms == ServerIdle /\ ClientIdle /\ AuthIdle /\ InitCodec

SpecRooms == InitSpecRooms /\ [][NextRooms]_vars

\* A server without authentication and its sessions, with peers that send up
\* to MaxMsgs frames in the message loop.
NextSession ==
    \/ \E c \in ConnIds : Accept(c)
    \/ \E c \in ConnIds, call \in AppCalls, raises \in BOOLEAN : OnConnect(c, call, raises)
    \/ \E c \in ConnIds, f \in LoopFrames, call \in AppCalls,
          raises \in BOOLEAN, returns \in BOOLEAN :
          LoopRecv(c, f, call, raises, returns)
    \/ \E c \in ConnIds : LoopClosed(c)
    \/ \E c \in ConnIds, call \in DisconnectCalls, raises \in BOOLEAN :
          OnDisconnect(c, call, raises)
    \/ \E c \in ConnIds : PeerClose(c)

InitSpecSession ==
    /\ InitServer /\ max_connections = MaxConns /\ ~require_auth /\ ~authenticator
    /\ ClientIdle
    /\ AuthIdle /\ InitCodec

SpecSession == InitSpecSession /\ [][NextSession]_vars

\* A server without authentication whose application broadcasts to a room
\* while connections come, join and leave rooms, and go.
NextBroadcast ==
    \/ \E c \in ConnIds : Accept(c)
    \/ \E c \in ConnIds, call \in AppCalls, raises \in BOOLEAN : OnConnect(c, call, raises)
    \/ \E c \in ConnIds : LoopClosed(c)
    \/ \E c \in ConnIds, call \in DisconnectCalls, raises \in BOOLEAN :
          OnDisconnect(c, call, raises)
    \/ \E c \in ConnIds : PeerClose(c)
    \/ \E r \in Rooms : Broadcast(r)
    \/ BroadcastSendDone

InitSpecBroadcast ==
    /\ InitServer /\ max_connections = MaxConns /\ ~require_auth /\ ~authenticator
    /\ ClientIdle
    /\ AuthIdle /\ InitCodec

SpecBroadcast == InitSpecBroadcast /\ [][NextBroadcast]_vars

\* The client with a caller that connects, subscribes and disconnects.
InitSpecClient ==
    /\ InitClient /\ netLimit = MaxTransports - 1
    /\ ServerIdle
    /\ AuthIdle /\ InitCodec

SpecClient == InitSpecClient /\ [][NextClient]_vars

\* The client left alone by its caller once connected: the caller connects
\* and subscribes, and never disconnects.
NextReconnect ==
    \/ ConnectCall
    \/ \E ok \in BOOLEAN : ConnectOpened(ok)
    \/ \E reply \in AuthReplies : ConnectAuth(reply)
    \/ \E t \in TransportIds : RecvStart(t)
    \/ \E t \in TransportIds : RecvEnd(t)
    \/ \E t \in TransportIds : TransportDrop(t)
    \/ \E i \in SupIds : SupWake(i)
    \/ \E i \in SupIds, ok \in BOOLEAN : SupOpened(i, ok)
    \/ \E i \in SupIds, reply \in AuthReplies : SupAuth(i, reply)
    \/ \E i \in SupIds : SupSendDone(i)
    \/ \E r \in Rooms : Subscribe(r)

InitSpecReconnect ==
    /\ InitClient /\ netLimit = MaxTransports
    /\ cfg.reconnect /\ cfg.initial_delay = 1 /\ cfg.max_delay = 1
    /\ ServerIdle
    /\ AuthIdle /\ InitCodec

SpecReconnect == InitSpecReconnect /\ [][NextReconnect]_vars

\* The client without reconnection, with a caller that connects and sends
\* requests, and a peer that answers or not.
NextRequest ==
    \/ ConnectCall
    \/ \E ok \in BOOLEAN : ConnectOpened(ok)
    \/ \E t \in TransportIds : RecvStart(t)
    \/ \E t \in TransportIds : RecvEnd(t)
    \/ \E t \in TransportIds : TransportDrop(t)
    \/ \E k \in ReqIds, T \in Timeouts : SendRequest(k, T)
    \/ \E k \in ReqIds : RequestSent(k)
    \/ \E cid \in 0 .. 2 * MaxRequests, type \in MessageTypes : Deliver(cid, type)
    \/ \E k \in ReqIds : RequestReturn(k)
    \/ \E k \in ReqIds, cancels \in BOOLEAN : RequestTimeout(k, cancels)
    \/ \E k \in ReqIds : RequestExpired(k)
    \/ Tick

InitSpecRequest ==
    /\ InitClient /\ netLimit = 1
    /\ ~cfg.reconnect /\ ~cfg.token /\ cfg.initial_delay = 1 /\ cfg.max_delay = 1
    /\ ServerIdle
    /\ AuthIdle /\ InitCodec

SpecRequest == InitSpecRequest /\ [][NextRequest]_vars

\* The authenticator alone: tokens are issued and presented as time passes.
InitSpecAuth == ServerIdle /\ ClientIdle /\ InitAuth /\ InitCodec

SpecAuth == InitSpecAuth /\ [][NextAuth]_vars

\* The codec alone: messages are encoded, texts arrive, and are decoded.
InitSpecCodec == ServerIdle /\ ClientIdle /\ AuthIdle /\ InitCodec

SpecCodec == InitSpecCodec /\ [][NextCodec]_vars

\* ------------------------------------------------------- claims: server
\* C2: in every reachable state the number of registered connections is at
\* most max_connections.
C2_CapacityRespected == Cardinality(connections) <= max_connections

\* The first envelope of c was an auth Request whose token passes
\* authenticate_connection.
AuthPassed(c) ==
    /\ firstFrame[c] \notin {NoFrame, Garbage}
    /\ firstFrame[c].type = "request"
    /\ firstFrame[c].event = "auth"
    /\ authenticate_connection(firstFrame[c].data) # None

\* C3: with require_auth set, a connection is registered, or has had a frame
\* dispatched in the message loop, only if its first envelope was an auth
\* Request whose token passed authenticate_connection.
C3_AuthBeforeRegistration ==
    require_auth =>
        \A c \in ConnIds : (c \in connections \/ nmsg[c] > 0) => AuthPassed(c)

\* C4: with require_auth set, once the handshake has handled a first envelope
\* that is an auth Request with a passing token, a Response carrying the
\* request's correlation id has been sent, websocket.user is set, and the
\* server has not closed the transport.
C4_AuthAcknowledged ==
    \A c \in ConnIds :
        (require_auth /\ AuthPassed(c)) =>
            /\ \E i \in 1 .. Len(sent[c]) :
                  /\ sent[c][i].type = "response"
                  /\ sent[c][i].correlation_id = firstFrame[c].correlation_id
            /\ wsUser[c] # None
            /\ closeCode[c] = 0

\* C5: once a connection's handler has finished, its id is in neither
\* self.connections nor the member set of any room.
C5_TeardownLeavesNothing ==
    \A c \in ConnIds :
        hpc[c] = "closed" =>
            /\ c \notin connections
            /\ \A r \in DOMAIN connection_rooms : c \notin connection_rooms[r]

\* ------------------------------------------------------- claims: client
\* C1: a send_request() call for which an envelope carrying its request's
\* correlation_id was received before its timeout elapsed does not end in
\* TimeoutError.
C1_MatchingReplyReturned ==
    \A k \in ReqIds : reqs[k].pc = "timeout" => ~reqs[k].replied

\* C10: a send_request() call with timeout T that has had no reply does not
\* wait beyond T, and once it has ended in TimeoutError its request has no
\* entry in pending_requests.
C10_TimeoutHonoured ==
    \A k \in ReqIds :
        reqs[k].T # NoTimeout =>
            /\ (reqs[k].pc = "waiting" /\ reqs[k].fut = "pending" /\ ~reqs[k].replied)
                  => reqs[k].elapsed <= reqs[k].T
            /\ reqs[k].pc = "timeout" => reqs[k].id \notin pending_requests

\* C6: once disconnect() has returned, and until connect() is called again,
\* no supervisor begins a connection attempt and the client is not connected.
C6_DisconnectSuppressesReconnect ==
    [][dcDone =>
          /\ \A i \in SupIds : sup'[i].st = "opening" => sup[i].st = "opening"
          /\ dcDone' => ~is_connected']_vars

\* C7: when a supervisor's attempt succeeds after an unexpected disconnect,
\* the caller having done nothing since, a subscribe has been sent for every
\* room recorded at the disconnect on the transport the attempt opened (or on
\* the transport the client holds by then), and self.rooms is that recorded set.
C7_RoomsRestoredOnReconnect ==
    [][\A i \in SupIds :
          ( /\ sup[i].st = "sending" /\ sup'[i].st = "done" /\ sup'[i].ok
            /\ ~callerActed
            /\ tr'[sup[i].own] = "open" )
          => /\ \/ roomsAtDrop \subseteq subs'[sup[i].own]
                \/ websocket' # 0 /\ roomsAtDrop \subseteq subs'[websocket']
             /\ rooms' = roomsAtDrop]_vars

\* C8: after an unexpected disconnect, the caller having done nothing since,
\* the attempts begun without a success in between number at most max_retries.
C8_AtMostMaxRetriesAttempts ==
    ~callerActed => attempts <= cfg.max_retries

RECURSIVE Pow2(_)
Pow2(k) == IF k = 0 THEN 1 ELSE 2 * Pow2(k - 1)

\* C9: the wait before attempt k of a supervisor is
\* min(initial_delay * 2^k, max_delay).
C9_BackoffDelay ==
    \A i \in SupIds :
        sup[i].st = "sleep" =>
            sup[i].delay = Min(cfg.initial_delay * Pow2(sup[i].attempt), cfg.max_delay)

\* C11: for every send_request() call, set_result is called on its future at
\* most once and its entry is removed from pending_requests at most once; a
\* call that returned has a future with a result set exactly once, a call
\* that ended in TimeoutError has a cancelled future that never got a result,
\* and in both cases the entry was removed exactly once and is gone.
C11_ResolvedOnce ==
    \A k \in ReqIds :
        LET r == reqs[k] IN
        /\ r.nset <= 1
        /\ r.nrem <= 1
        /\ r.pc = "returned" => r.fut = "done" /\ r.nset = 1
        /\ r.pc = "timeout" => r.fut = "cancelled" /\ r.nset = 0
        /\ r.pc \in {"returned", "timeout"} =>
               r.nrem = 1 /\ r.id \notin pending_requests

\* A call given a timeout returned a reply that resolved it when its timeout
\* was already due.
C11_ReplyAtDeadline ==
    \E k \in ReqIds :
        /\ reqs[k].pc = "returned"
        /\ reqs[k].T # NoTimeout
        /\ reqs[k].elapsed >= reqs[k].timeout

\* C12: no time passes for a send_request() call that still waits for its
\* future once the receive loop of the transport it sent on has ended (the
\* client has seen the connection close).
C12_PendingFailsOnClose ==
    [][\A k \in ReqIds :
          ( /\ reqs[k].pc = "waiting" /\ ~FutureDone(reqs[k])
            /\ recv[reqs[k].ws].st = "done" )
          => reqs'[k].elapsed = reqs[k].elapsed]_vars

\* ---------------------------------------------------- claims: broadcast
\* Sends the broadcast_to_room call in progress attempted to connection c, and
\* those that went out; the n-th call's envelope carries n as its data.
Attempts(c) == Cardinality({i \in 1 .. Len(bc.att) : bc.att[i].c = c})
Delivered(c) ==
    Cardinality({i \in 1 .. Len(sent[c]) :
                    sent[c][i].type = "event" /\ sent[c][i].data = bc.n})

C14_FailedSendIsolated ==
    (\E i \in 1 .. Len(bc.att) : ~bc.att[i].ok) =>
        /\ bc.pc \in {"sending", "done"}
        /\ bc.pc = "done" =>
               \A c \in bc.members \ bc.skipped : Attempts(c) = 1

\* C14 witness: the first send of a broadcast failed and the second member
\* was sent the envelope after it.
C14_SendAfterFailedSend ==
    /\ bc.pc = "done"
    /\ Len(bc.att) = 2
    /\ ~bc.att[1].ok
    /\ bc.att[2].ok
    /\ Delivered(bc.att[2].c) = 1

\* ---------------------------------------------------------- claims: rooms
\* C15: a step that is leave_all_rooms(c) leaves c a member of no room,
\* however many rooms c had joined.
C15_LeaveAllLeavesEveryRoom ==
    [][\A c \in ApiConnIds :
          LeaveAllRooms(c) =>
              \A r \in DOMAIN connection_rooms' : c \notin connection_rooms'[r]]_vars

\* C16: after any sequence of join_room, leave_room and leave_all_rooms the
\* room map has an entry for a room exactly when the room has a member:
\* every entry of connection_rooms is a non-empty set.
C16_RoomEntryIffMember ==
    \A r \in DOMAIN connection_rooms : connection_rooms[r] # {}

\* --------------------------------------------------- claims: message loop
\* C17: a step in which a registered connection's subscribe frame naming r
\* is handled makes the connection a member of r, whatever the application's
\* on_message does.
C17_SubscribeJoinsRoom ==
    [][\A c \in ConnIds, r \in Rooms, call \in AppCalls, raises \in BOOLEAN :
          LoopRecv(c, SubscribeFrame(r), call, raises, FALSE) =>
              /\ r \in DOMAIN connection_rooms'
              /\ c \in connection_rooms'[r]]_vars

\* C18: a step in which a Request is handed to on_message and on_message
\* returns a reply puts that reply, with the Request's correlation_id, on the
\* same connection.
C18_ReplySentWithCorrelationId ==
    [][\A c \in ConnIds, call \in AppCalls :
          LoopRecv(c, OtherRequest("k1"), call, FALSE, TRUE) =>
              /\ Len(sent'[c]) = Len(sent[c]) + 1
              /\ sent'[c][Len(sent'[c])].type = "response"
              /\ sent'[c][Len(sent'[c])].correlation_id = "k1"]_vars

\* C19: the Error envelope the server sends for a rejected auth Request, and
\* the one it sends when on_message raises for a Request in the message loop,
\* carry the Request's correlation_id.
C19_ErrorCarriesCorrelationId ==
    [][\A c \in ConnIds :
          /\ ( /\ AuthRecv(c, AuthRequest("bad", "k1"))
               /\ Len(sent'[c]) > Len(sent[c]) )
             => /\ sent'[c][Len(sent'[c])].type = "error"
                /\ sent'[c][Len(sent'[c])].correlation_id = "k1"
          /\ \A call \in AppCalls :
                LoopRecv(c, OtherRequest("k1"), call, TRUE, FALSE) =>
                    /\ Len(sent'[c]) = Len(sent[c]) + 1
                    /\ sent'[c][Len(sent'[c])].type = "error"
                    /\ sent'[c][Len(sent'[c])].correlation_id = "k1"]_vars

\* C20: a step in which a registered connection's frame fails to decode
\* sends one Error envelope on that connection and leaves the session as it
\* was: the connection is still registered, its transport open and its
\* handler in the message loop, ready for the next frame.
C20_DecodeFailureContained ==
    [][\A c \in ConnIds, call \in AppCalls, raises \in BOOLEAN :
          LoopRecv(c, Garbage, call, raises, FALSE) =>
              /\ sent'[c] = Append(sent[c], create_error("DECODE_ERROR", "decode", None))
              /\ \A d \in ConnIds \ {c} : sent'[d] = sent[d]
              /\ c \in connections /\ c \in connections'
              /\ hpc'[c] = "loop" /\ wsOpen'[c]
              /\ closeCode'[c] = 0]_vars

\* C20 witness: a connection whose first frame failed to decode and whose
\* second frame was handed to on_message, which raised; it is still
\* registered and in its message loop.
C20_FrameHandledAfterDecodeFailure ==
    \E c \in connections :
        /\ hpc[c] = "loop"
        /\ nmsg[c] = 2
        /\ Len(sent[c]) >= 2
        /\ sent[c][Len(sent[c]) - 1] = create_error("DECODE_ERROR", "decode", None)
        /\ sent[c][Len(sent[c])] = create_error("DECODE_ERROR", "app", None)

\* ------------------------------------------------------ claims: handshake
\* C21: with require_auth set, a step that handles a connection's first
\* inbound envelope, this being a Request other than auth, is the handshake's:
\* it sends one AUTH_REQUIRED Error envelope, closes the transport with 1008
\* and ends the handler with the connection unregistered and no callback
\* run; it is never a step of the message loop that hands the envelope to
\* on_message.
C21_NonAuthFirstFrameRejected ==
    [][\A c \in ConnIds :
          require_auth =>
              /\ AuthRecv(c, OtherRequest("k1")) =>
                    /\ sent'[c] = <<create_error("AUTH_REQUIRED",
                                                 "Authentication required", None)>>
                    /\ closeCode'[c] = 1008
                    /\ hpc'[c] = "closed"
                    /\ c \notin connections'
              /\ \A call \in AppCalls, raises \in BOOLEAN, returns \in BOOLEAN :
                    ~ ( /\ firstFrame[c] = NoFrame
                        /\ nmsg[c] = 0
                        /\ LoopRecv(c, OtherRequest("k1"), call, raises, returns) )]_vars

\* C22: a transport the server has closed at the capacity check (1013) or in
\* the authentication handshake (1008, 1011) was sent an Error envelope
\* before it was closed.
C22_ErrorBeforeClose ==
    \A c \in ConnIds :
        closeCode[c] \in {1013, 1008, 1011} =>
            /\ Len(sent[c]) >= 1
            /\ sent[c][Len(sent[c])].type = "error"

\* -------------------------------------------------- claims: authenticator
\* The last call was verify_token on the token create_token returned.
VerifiedIssued ==
    /\ checked.op = "verify"
    /\ issued.tok # NoToken
    /\ checked.token = issued.tok

\* t0 + d, in ticks: the time of the create_token call plus token_expiry.
Deadline == issued.t0 + token_expiry * TicksPerSecond

\* C23 as stated: verify_token returns the claim at every check time before
\* t0 + d and None at every check time after t0 + d.
C23_ValidExactlyUntilDeadline ==
    VerifiedIssued =>
        /\ checked.at < Deadline => checked.res.out = "claim"
        /\ checked.at > Deadline => checked.res = NoClaim

\* C23 amended: verify_token returns the claim, with the payload's entries, at every check time before
\* the expiry written into the token, which is t0 + d with the fraction of a
\* second dropped, and None at every check time one second or more after
\* that expiry.
C23_ValidUntilExpirySecond ==
    VerifiedIssued =>
        LET exp == IntDate(issued.t0) + token_expiry IN
        /\ issued.tok.exp = exp
        /\ checked.at < exp * TicksPerSecond =>
               /\ checked.res.out = "claim"
               /\ checked.res.payload.permissions = issued.tok.payload.permissions
               /\ checked.res.payload.exp = exp
        /\ checked.at >= (exp + 1) * TicksPerSecond => checked.res = NoClaim

\* C23 witness: a token issued within a second, checked a second or more
\* after its expiry, was refused.
C23_RefusedAfterExpirySecond ==
    /\ VerifiedIssued
    /\ issued.t0 % TicksPerSecond # 0
    /\ checked.at >= (issued.tok.exp + 1) * TicksPerSecond
    /\ checked.res = NoClaim

\* C24: verify_token never raises; it returns None for whatever is no
\* token, for a token whose signature was not made with the verifier's
\* secret and for a token checked a second or more after its expiry, so that
\* a claim comes only from a well-formed, correctly signed, unexpired token.
C24_InvalidTokensRefused ==
    checked.op = "verify" =>
        LET t == checked.token IN
        /\ checked.res.out # "raised"
        /\ t.kind # "jwt" => checked.res = NoClaim
        /\ (t.kind = "jwt" /\ t.sig # secret) => checked.res = NoClaim
        /\ (t.kind = "jwt" /\ checked.at >= (t.exp + 1) * TicksPerSecond) =>
               checked.res = NoClaim

\* C25: authenticate_connection(token, required) returns the claim exactly
\* when verify_token(token) returns a claim and every entry of required is
\* among the claim's permissions; without required permissions (None or an
\* empty list) it returns what verify_token returns, and it yields no claim
\* for a token verify_token yields none for.
C25_ClaimIffVerifiedAndPermitted ==
    checked.op = "authenticate" =>
        LET v == verify_token(checked.token, checked.at)
            req == checked.required
        IN /\ checked.res.out = "claim" <=>
                  /\ v.out = "claim"
                  /\ req.has => req.v \subseteq user_permissions(v.payload)
           /\ checked.res.out = "claim" => checked.res = v
           /\ (~req.has \/ req.v = {}) => checked.res = v
           /\ v.out # "claim" => checked.res.out # "claim"

\* C25 witness: a token that verifies and carries one of two required
\* permissions was refused.
C25_RefusedForMissingPermission ==
    /\ checked.op = "authenticate"
    /\ verify_token(checked.token, checked.at).out = "claim"
    /\ checked.required.v = Permissions
    /\ checked.token.payload.permissions = ListOf({"read"})
    /\ checked.res = NoClaim

\* C26: decode fails for every input that lacks the id field and for every
\* input that lacks the type ("kind") field.
C26_DecodeRejectsMissingIdOrType ==
    ( /\ decoded # NotDecoded
      /\ wire.kind = "object"
      /\ (wire.id = Missing \/ wire.type = Missing) )
        => decoded = ValidationError

\* C27 as stated: for every valid message, whatever its payload mapping,
\* decode(encode(m)) equals m field for field.
C27_RoundTripAnyPayload ==
    (message # NoMessage /\ decoded # NotDecoded) => decoded = message

\* C27 as amended: for every valid message (every type, with or without
\* correlation_id, room and error fields) whose payload values are JSON
\* values, decode(encode(m)) equals m field for field.
C27_RoundTripJsonPayload ==
    (message # NoMessage /\ decoded # NotDecoded /\ message.data.k.ty # "tuple")
        => decoded = message

C27_RoundTripDone ==
    /\ message # NoMessage
    /\ message.correlation_id = "c1"
    /\ message.room = "a"
    /\ message.data = [n |-> 1, k |-> PyValue("list", "1,2")]
    /\ decoded = message

\* C28: at most one reconnect supervisor task is active per client, under
\* every interleaving of connect(), receive-loop termination and reconnect
\* attempts.
C28_OneSupervisor ==
    Cardinality({i \in SupIds : Active(i)}) <= 1

\* C29: a client holds at most one open transport and runs at most one
\* receive loop, under every interleaving of connect(), disconnect(), failed
\* connection attempts and reconnect attempts.
C29_OneTransportOneReceiveLoop ==
    /\ Cardinality({t \in TransportIds : tr[t] = "open"}) <= 1
    /\ Cardinality({t \in TransportIds : recv[t].st = "running"}) <= 1

\* C30: once stop() has returned (start() is not called again in this
\* model), the handler runs for no new connection and no new connection is
\* registered.
C30_NoAcceptAfterStop ==
    [][~is_running =>
          \A c \in ConnIds :
              hpc[c] = "idle" => (hpc'[c] = "idle" /\ c \notin connections')]_vars

=============================================================================
